---- MODULE Spec2Model ----
(***************************************************************************)
(* A model of rename_images.py: the two renaming functions                 *)
(* rename_and_copy_subfolder_mode and rename_and_copy_single_folder_mode,  *)
(* run against a small file system, and of their counterparts in           *)
(* rename_images_gui.py.  File and directory names are                     *)
(* sequences of one-character strings, so that lower(), endswith(),        *)
(* splitext(), isdigit(), sorted() and the guide-photo regular expression  *)
(* are computed as the Python code computes them.                          *)
(***************************************************************************)
EXTENDS Integers, Sequences, FiniteSets, TLC

VARIABLES
    mode,           \* "single_folder" or "subfolder" (args.mode)
    angle_num,      \* args.angle_num
    image_folder,   \* args.image_folder, a directory name
    dirs,           \* the directories below base_work_dir, as paths (tuples of names)
    files,          \* the file system: [<<dir path, file name>> -> content]
    unreadable,     \* files whose copy raises (the except branch of each try)
    scandirRev,     \* the order in which os.walk lists sibling directories
    pc,             \* position in the running function
    run,            \* 1 for the first invocation, 2 for the second
    all_files,      \* single-folder mode: sorted supported files
    batches,        \* single-folder mode: the batches
    bi,             \* single-folder mode: index i of the batch loop
    j,              \* single-folder mode: index j of the inner loop (0 = guide not yet copied)
    total_renamed_count,
    walk,           \* subfolder mode: directories os.walk has still to yield
    root,           \* subfolder mode: the directory being processed
    image_files,    \* subfolder mode: sorted supported files of root
    i,              \* subfolder mode: index of the enumerate loop
    attempts,       \* every shutil.copy2 call so far: [src, dst, ok]
    log,            \* the lines printed so far
    files0,         \* the file system before the first run
    files1,         \* the file system after the first run
    gui             \* the state of the same call made through rename_images_gui.py

vars == <<mode, angle_num, image_folder, dirs, files, unreadable, scandirRev, pc, run,
          all_files, batches, bi, j, total_renamed_count, walk, root, image_files, i,
          attempts, log, files0, files1, gui>>

\* the variables of the command-line run
cliVars == <<mode, angle_num, image_folder, dirs, files, unreadable, scandirRev, pc, run,
             all_files, batches, bi, j, total_renamed_count, walk, root, image_files, i,
             attempts, log, files0, files1>>

----------------------------------------------------------------------------
(* Characters and strings *)

Digits == <<"0", "1", "2", "3", "4", "5", "6", "7", "8", "9">>
Uppers == <<"A", "B", "C", "D", "E", "F", "G", "H", "I", "J", "K", "L", "M",
            "N", "O", "P", "Q", "R", "S", "T", "U", "V", "W", "X", "Y", "Z">>
Lowers == <<"a", "b", "c", "d", "e", "f", "g", "h", "i", "j", "k", "l", "m",
            "n", "o", "p", "q", "r", "s", "t", "u", "v", "w", "x", "y", "z">>

Range(s) == {s[k] : k \in DOMAIN s}

DigitSet == Range(Digits)

UpperSet == Range(Uppers)

LowerSet == Range(Lowers)

\* the characters file and directory names are made of
Alphabet == DigitSet \cup UpperSet \cup LowerSet \cup {"-", ".", "_"}

IndexOf(c, s) == CHOOSE k \in DOMAIN s : s[k] = c

\* ord(c): the code point of an ASCII character
OrdTable ==
    [c \in Alphabet |->
        IF c \in DigitSet THEN 47 + IndexOf(c, Digits)
        ELSE IF c \in UpperSet THEN 64 + IndexOf(c, Uppers)
        ELSE IF c \in LowerSet THEN 96 + IndexOf(c, Lowers)
        ELSE IF c = "-" THEN 45
        ELSE IF c = "." THEN 46
        ELSE 95]

Ord(c) == OrdTable[c]

\* str.lower() on one character
LowerTable ==
    [c \in Alphabet |-> IF c \in UpperSet THEN Lowers[IndexOf(c, Uppers)] ELSE c]

\* the ASCII characters from 'A' (code 65) to '_' (code 95), in code order
AsciiFromA == Uppers \o <<"[", "\\", "]", "^", "_">>

\* chr(ord('A') + n), for n up to 30
ChrFromA(n) == AsciiFromA[n + 1]

\* str.lower() on a string
LowerChar(c) == LowerTable[c]

Lower(s) == [k \in DOMAIN s |-> LowerChar(s[k])]

\* str.endswith(suffix)
EndsWith(s, suf) ==
    /\ Len(suf) <= Len(s)
    /\ SubSeq(s, Len(s) - Len(suf) + 1, Len(s)) = suf

\* str.isdigit(): non-empty and every character a digit
IsDigit(s) == Len(s) > 0 /\ \A k \in DOMAIN s : s[k] \in DigitSet

\* [a-zA-Z0-9] of the guide-photo pattern
IsAlnum(c) == c \in DigitSet \cup UpperSet \cup LowerSet

\* s < t in Python's string order (code points, a proper prefix first)
StrLess(s, t) ==
    LET n == IF Len(s) < Len(t) THEN Len(s) ELSE Len(t)
        D == {k \in 1..n : s[k] # t[k]}
    IN IF D = {} THEN Len(s) < Len(t)
       ELSE \E k \in D : (\A m \in D : k <= m) /\ Ord(s[k]) < Ord(t[k])

\* sorted(S) for a set of distinct strings
RECURSIVE Sorted(_)
Sorted(S) ==
    IF S = {} THEN <<>>
    ELSE LET m == CHOOSE x \in S : \A y \in S \ {x} : StrLess(x, y)
         IN <<m>> \o Sorted(S \ {m})

\* os.path.splitext(name)[1]: from the last dot on, unless only dots precede it
SplitExt(name) ==
    LET dots == {k \in DOMAIN name : name[k] = "."}
    IN IF dots = {} THEN <<>>
       ELSE LET d == CHOOSE k \in dots : \A m \in dots : m <= k
            IN IF \E k \in 1..(d - 1) : name[k] # "."
               THEN SubSeq(name, d, Len(name))
               ELSE <<>>

\* the decimal digits of n >= 0
RECURSIVE Decimal(_)
Decimal(n) ==
    IF n < 10 THEN <<Digits[n + 1]>>
    ELSE Decimal(n \div 10) \o <<Digits[(n % 10) + 1]>>

\* f"{n:02d}" for n >= 0
Format02d(n) == IF n < 10 THEN <<"0">> \o Decimal(n) ELSE Decimal(n)

\* Python's a % b and a // b for b # 0 (the result of % has the sign of b)
PyMod(a, b) == IF b > 0 THEN a % b ELSE 0 - ((0 - a) % (0 - b))

PyFloorDiv(a, b) ==
    IF b > 0 THEN (a - PyMod(a, b)) \div b
    ELSE 0 - ((a - PyMod(a, b)) \div (0 - b))

----------------------------------------------------------------------------
(* Program constants and arguments *)

RENAMED_FOLDER_NAME == <<"r", "e", "n", "a", "m", "e", "d">>

SUPPORTED_IMAGE_EXTENSIONS ==
    { <<".", "j", "p", "g">>, <<".", "j", "p", "e", "g">>, <<".", "p", "n", "g">>,
      <<".", "g", "i", "f">>, <<".", "b", "m", "p">>, <<".", "t", "i", "f", "f">> }

angle_suffixes == <<"A", "B", "C", "D">>

\* args.region.upper() and args.date
region_code == <<"S", "Y">>

date_code == <<"2", "5">>

\* the default of --image_folder
PHONE_IMAGE == <<"p", "h", "o", "n", "e", "_", "i", "m", "a", "g", "e">>

\* paths are relative to base_work_dir: a tuple of directory names
BasePath == <<>>

\* os.path.join(base_dir, RENAMED_FOLDER_NAME)
RenamedDirPath == <<RENAMED_FOLDER_NAME>>

\* f.lower().endswith(SUPPORTED_IMAGE_EXTENSIONS)
IsSupported(f) == \E ext \in SUPPORTED_IMAGE_EXTENSIONS : EndsWith(Lower(f), ext)

\* guide_photo_pattern.search(filename): -([a-zA-Z0-9]{2})\.(jpg|jpeg|...)$ with
\* re.IGNORECASE; the extension whose match ends the name, if any
GuideExt(f) ==
    {ext \in SUPPORTED_IMAGE_EXTENSIONS :
        /\ EndsWith(Lower(f), ext)
        /\ Len(f) >= Len(ext) + 3
        /\ f[Len(f) - Len(ext) - 2] = "-"
        /\ IsAlnum(f[Len(f) - Len(ext) - 1])
        /\ IsAlnum(f[Len(f) - Len(ext)])}

IsGuide(f) == GuideExt(f) # {}

\* match.group(1)
GuideBatchId(f) ==
    LET ext == CHOOSE e \in GuideExt(f) : TRUE
    IN SubSeq(f, Len(f) - Len(ext) - 1, Len(f) - Len(ext))

----------------------------------------------------------------------------
(* The file system *)

\* os.listdir(d), files only
ListDir(d) == {p[2] : p \in {q \in DOMAIN files : q[1] = d}}

\* the sub-directories os.walk finds in d, in scandir order
RECURSIVE SortedPaths(_)
SortedPaths(S) ==
    IF S = {} THEN <<>>
    ELSE LET m == CHOOSE x \in S :
                    \A y \in S \ {x} : StrLess(x[Len(x)], y[Len(y)])
         IN <<m>> \o SortedPaths(S \ {m})

Reverse(s) == [k \in DOMAIN s |-> s[Len(s) + 1 - k]]

SubDirs(d) ==
    LET kids == {c \in dirs : Len(c) = Len(d) + 1 /\ SubSeq(c, 1, Len(d)) = d}
    IN IF scandirRev THEN Reverse(SortedPaths(kids)) ELSE SortedPaths(kids)

\* shutil.copy2(src, dst) returns normally: the source can be read and is not
\* the destination itself (SameFileError)
CopyOk(src, dst) == src \in DOMAIN files /\ src \notin unreadable /\ src # dst

\* a copy that never overwrites: an existing destination gets a new name
Copy2KeepExisting(src, dst) ==
    IF ~CopyOk(src, dst) THEN files
    ELSE LET to == IF dst \in DOMAIN files THEN <<dst[1], dst[2] \o <<"_">> >> ELSE dst
         IN [p \in DOMAIN files \cup {to} |-> IF p = to THEN files[src] ELSE files[p]]

\* the file system after shutil.copy2(src, dst)
Copy2(src, dst) ==
    IF CopyOk(src, dst)
    THEN [p \in DOMAIN files \cup {dst} |-> IF p = dst THEN files[src] ELSE files[p]]
    ELSE files

\* os.makedirs(renamed_dir_path, exist_ok=True)
create_renamed_directory == dirs \cup {RenamedDirPath}

----------------------------------------------------------------------------
(* Bounds and the inputs drawn in Init *)

MaxFiles == 5

MaxAngle == 3

MaxSubFiles == 6

AngleNums == {0 - 1, 0} \cup (1..MaxAngle)

F_A01 == <<"A", "-", "0", "1", ".", "j", "p", "g">>
F_B == <<"B", ".", "j", "p", "g">>
F_C01 == <<"C", "-", "0", "1", ".", "J", "P", "G">>
F_D == <<"D", ".", "J", "P", "G">>
F_E02 == <<"E", "-", "0", "2", ".", "p", "n", "g">>
F_SY == <<"S", "Y", "-", "2", "5", "-", "0", "1", "0", "1", "-", "A", ".", "j", "p", "g">>
F_0 == <<"0", ".", "p", "n", "g">>
F_b == <<"b", ".", "j", "p", "e", "g">>
F_txt == <<"n", ".", "t", "x", "t">>

SinglePool == {F_A01, F_B, F_C01, F_D, F_E02, F_SY, F_0, F_b, F_txt}

D0001 == <<"0", "0", "0", "1">>
D0002 == <<"0", "0", "0", "2">>
Dab == <<"a", "b">>
D123 == <<"1", "2", "3">>
D12a4 == <<"1", "2", "a", "4">>

DirTrees ==
    { {},
      {<<D0001>>}, {<<Dab>>}, {<<D123>>}, {<<D12a4>>}, {RenamedDirPath},
      {<<D0001>>, <<D0002>>}, {<<D0001>>, <<Dab>>},
      {<<Dab>>, <<Dab, D0001>>}, {<<D0001>>, <<D0001, D0002>>},
      {RenamedDirPath, <<RENAMED_FOLDER_NAME, D0002>>},
      {<<D0001>>, RenamedDirPath, <<RENAMED_FOLDER_NAME, D0001>>},
      {<<D0001>>, <<Dab>>, <<Dab, D0001>>} }

S_A == <<"A", ".", "j", "p", "g">>
S_b == <<"b", ".", "J", "P", "G">>
S_c == <<"c", ".", "p", "n", "g">>

SubFilePool ==
    << S_b, S_A, F_txt, S_c,
       <<"d", ".", "g", "i", "f">>, <<"e", ".", "b", "m", "p">>,
       <<"f", ".", "t", "i", "f", "f">>, <<"g", ".", "j", "p", "e", "g">> >>

Listing(k) == {SubFilePool[m] : m \in 1..(IF k < Len(SubFilePool) THEN k ELSE Len(SubFilePool))}

UnreadableNames == {S_A, S_c}

FreshState ==
    /\ pc = "start"
    /\ run = 1
    /\ all_files = <<>>
    /\ batches = <<>>
    /\ bi = 0
    /\ j = 0
    /\ total_renamed_count = 0
    /\ walk = <<>>
    /\ root = <<>>
    /\ image_files = <<>>
    /\ i = 0
    /\ attempts = <<>>
    /\ log = <<>>
    /\ files0 = files
    /\ files1 = files
    /\ gui = [pc |-> "start", dirs |-> dirs, files |-> files, all_files |-> <<>>,
              batches |-> <<>>, bi |-> 0, j |-> 0, total_renamed_count |-> 0,
              walk |-> <<>>, root |-> <<>>, image_files |-> <<>>, i |-> 0,
              attempts |-> <<>>, log |-> <<>>]

InitSingle ==
    /\ mode = "single_folder"
    /\ angle_num \in AngleNums
    /\ image_folder \in {PHONE_IMAGE, RENAMED_FOLDER_NAME}
    /\ scandirRev = FALSE
    /\ \E exists \in BOOLEAN, S \in SUBSET SinglePool :
          /\ Cardinality(S) <= MaxFiles
          /\ ~exists => S = {}
          /\ dirs = IF exists THEN {<<image_folder>>} ELSE {}
          /\ files = [p \in {<< <<image_folder>>, n >> : n \in S} |-> p]
    /\ unreadable \in {{}} \cup {{p} : p \in DOMAIN files}
    /\ FreshState

InitSub ==
    /\ mode = "subfolder"
    /\ angle_num = 4
    /\ image_folder = PHONE_IMAGE
    /\ scandirRev \in BOOLEAN
    /\ dirs \in DirTrees
    /\ \E size \in [dirs \ {RenamedDirPath} -> 0..MaxSubFiles] :
          files = [p \in UNION {{<<d, n>> : n \in Listing(size[d])} : d \in dirs \ {RenamedDirPath}}
                         \cup {<<BasePath, S_A>>} |-> p]
    /\ unreadable \in {{}} \cup {{p} : p \in {q \in DOMAIN files : q[2] \in UnreadableNames}}
    /\ FreshState

Init == InitSingle \/ InitSub

\* long batches: one guide photo followed by n numbered images
MaxBatchFiles == 100

MaxLargeAngle == 27

LargeAngles == {1, 2, MaxLargeAngle - 1, MaxLargeAngle}

LargeCounts ==
    {MaxLargeAngle - 1, MaxLargeAngle, 2 * MaxLargeAngle, MaxBatchFiles - 1, MaxBatchFiles}

\* B001.jpg, B002.jpg, ...
LargeName(k) ==
    <<"B">> \o (IF k < 10 THEN <<"0", "0">> ELSE IF k < 100 THEN <<"0">> ELSE <<>>)
        \o Decimal(k) \o <<".", "j", "p", "g">>

InitLarge ==
    /\ mode = "single_folder"
    /\ angle_num \in LargeAngles
    /\ image_folder = PHONE_IMAGE
    /\ scandirRev = FALSE
    /\ dirs = {<<image_folder>>}
    /\ \E n \in LargeCounts :
          files = [p \in {<< <<image_folder>>, f >> :
                            f \in {F_A01} \cup {LargeName(k) : k \in 1..n}} |-> p]
    /\ unreadable = {}
    /\ FreshState

----------------------------------------------------------------------------
(* Single-folder mode: the analysis of lines 107-167 *)

\* os.path.join(base_work_directory, args.image_folder)
single_folder_path == <<image_folder>>

\* sorted([f for f in os.listdir(single_folder_path) if supported])
AllFiles == Sorted({f \in ListDir(single_folder_path) : IsSupported(f)})

\* guide_photos_info: the guide photos of af in list order, index 0-based
GuidePhotosInfo(af) ==
    LET G == {k \in 1..Len(af) : IsGuide(af[k])}
    IN [n \in 1..Cardinality(G) |->
          LET k == CHOOSE k \in G : Cardinality({m \in G : m < k}) = n - 1
          IN [filename |-> af[k], index |-> k - 1, batch_id |-> GuideBatchId(af[k])]]

\* all_files[start_index:end_index][1:]
FilesToRename(af, start_index, end_index) == SubSeq(af, start_index + 2, end_index)

\* Batches with the first batch starting at the head of the list
BatchesFromStart(af, gpi) ==
    [n \in 1..Len(gpi) |->
        LET start_index == IF n = 1 THEN 0 ELSE gpi[n].index
            end_index == IF n + 1 <= Len(gpi) THEN gpi[n + 1].index ELSE Len(af)
        IN [guide_file |-> gpi[n].filename,
            batch_id |-> gpi[n].batch_id,
            files_to_rename |-> FilesToRename(af, start_index, end_index)]]

\* Batches with the last batch ending one file before the end of the list
BatchesEndShort(af, gpi) ==
    [n \in 1..Len(gpi) |->
        LET start_index == gpi[n].index
            end_index == IF n + 1 <= Len(gpi) THEN gpi[n + 1].index ELSE Len(af) - 1
        IN [guide_file |-> gpi[n].filename,
            batch_id |-> gpi[n].batch_id,
            files_to_rename |-> FilesToRename(af, start_index, end_index)]]

\* batches
Batches(af, gpi) ==
    [n \in 1..Len(gpi) |->
        LET start_index == gpi[n].index
            end_index == IF n + 1 <= Len(gpi) THEN gpi[n + 1].index ELSE Len(af)
        IN [guide_file |-> gpi[n].filename,
            batch_id |-> gpi[n].batch_id,
            files_to_rename |-> FilesToRename(af, start_index, end_index)]]

\* is_consistent
IsConsistent(b) ==
    \A n \in 1..Len(b) : Len(b[n].files_to_rename) = Len(b[1].files_to_rename)

\* Validate without the test of line 164
ValidateNoMultipleCheck(b) ==
    IF Len(b) > 1 /\ ~IsConsistent(b) THEN "inconsistent"
    ELSE IF Len(b[1].files_to_rename) = 0 THEN "empty"
    ELSE IF angle_num = 0 THEN "ZeroDivisionError"
    ELSE "ok"

\* the outcome of the checks of lines 152-167 for batches b
Validate(b) ==
    IF Len(b) > 1 /\ ~IsConsistent(b) THEN "inconsistent"
    ELSE LET num_files_per_batch == Len(b[1].files_to_rename)
         IN IF num_files_per_batch = 0 THEN "empty"
            ELSE IF angle_num = 0 THEN "ZeroDivisionError"
            ELSE IF PyMod(num_files_per_batch, angle_num) # 0 THEN "not_multiple"
            ELSE "ok"

\* group_labels
GroupLabels == [k \in 1..(IF angle_num > 0 THEN angle_num ELSE 0) |-> ChrFromA(k - 1)]

\* (j // angle_num) + 1
GroupId(jj) == PyFloorDiv(jj, angle_num) + 1

\* group_labels[j % angle_num]
AngleSuffix(jj) == GroupLabels[PyMod(jj, angle_num) + 1]

\* lines 192-193 raise (ZeroDivisionError, IndexError) instead of yielding a name
NamingRaises(jj) ==
    \/ angle_num = 0
    \/ PyMod(jj, angle_num) >= Len(GroupLabels)
    \/ PyMod(jj, angle_num) < 0 - Len(GroupLabels)

\* FileExtension without .lower()
FileExtensionKeepCase(filename) == SplitExt(filename)

\* os.path.splitext(filename)[1].lower()
FileExtension(filename) == Lower(SplitExt(filename))

\* f"{region_code}-{date_code}-{batch_id}{group_id:02d}-{angle_suffix}{file_extension}"
NewFilename(batch_id, jj, filename) ==
    region_code \o <<"-">> \o date_code \o <<"-">> \o batch_id \o Format02d(GroupId(jj))
        \o <<"-", AngleSuffix(jj)>> \o FileExtension(filename)

\* total_renamed_count incremented outside the try
RenamedCountAlways(src, dst) == total_renamed_count + 1

\* total_renamed_count after the try of lines 201-206
RenamedCountAfter(src, dst) ==
    IF CopyOk(src, dst) THEN total_renamed_count + 1 ELSE total_renamed_count

\* what an attempted copy appends to the record of copies
Attempt(src, dst) == [src |-> src, dst |-> dst, ok |-> CopyOk(src, dst)]

----------------------------------------------------------------------------
(* Single-folder mode: the actions *)

\* lines 102-171: everything before the copy loop
SingleBegin ==
    /\ pc = "start"
    /\ mode = "single_folder"
    /\ UNCHANGED <<gui, mode, angle_num, image_folder, files, unreadable, scandirRev, run,
                   walk, root, image_files, i, attempts, files0, files1>>
    /\ IF single_folder_path \notin dirs
       THEN /\ log' = log \o << <<"error: path does not exist", single_folder_path>> >>
            /\ pc' = "returned"
            /\ UNCHANGED <<dirs, all_files, batches, bi, j, total_renamed_count>>
       ELSE \E af \in {AllFiles} : \E gpi \in {GuidePhotosInfo(af)} :
            \E b \in {Batches(af, gpi)} : \E v \in {IF gpi = <<>> THEN "" ELSE Validate(b)} :
            LET mk == << <<"renamed directory", RenamedDirPath>> >>
            IN /\ dirs' = create_renamed_directory
               /\ all_files' = af
               /\ bi' = 1
               /\ j' = 0
               /\ total_renamed_count' = 0
               /\ IF af = <<>>
                  THEN /\ log' = log \o mk \o << <<"warning: no supported files">> >>
                       /\ pc' = "returned"
                       /\ batches' = <<>>
                  ELSE IF gpi = <<>>
                  THEN /\ log' = log \o mk \o << <<"error: no guide photo">> >>
                       /\ pc' = "returned"
                       /\ batches' = <<>>
                  ELSE /\ batches' = b
                       /\ CASE v = "inconsistent" ->
                                 /\ log' = log \o mk \o << <<"error: inconsistent batches">> >>
                                      \o [n \in 1..Len(b) |->
                                           <<"batch count", b[n].guide_file,
                                             Len(b[n].files_to_rename)>>]
                                 /\ pc' = "returned"
                            [] v = "ZeroDivisionError" ->
                                 /\ log' = log \o mk
                                 /\ pc' = "crashed"
                            [] v = "not_multiple" ->
                                 /\ log' = log \o mk
                                      \o << <<"error: not a multiple",
                                              Len(b[1].files_to_rename), angle_num>>,
                                            <<"check the files or angle_num">> >>
                                 /\ pc' = "returned"
                            [] v = "empty" ->
                                 /\ log' = log \o mk
                                      \o << <<"warning: nothing between the guides">>,
                                            <<"processing", single_folder_path>>,
                                            <<"detected", Len(b), 0, angle_num>> >>
                                 /\ pc' = "copy_guide"
                            [] v = "ok" ->
                                 /\ log' = log \o mk
                                      \o << <<"processing", single_folder_path>>,
                                            <<"detected", Len(b),
                                              Len(b[1].files_to_rename), angle_num>> >>
                                 /\ pc' = "copy_guide"

\* where the loops of lines 177 and 189 go after the copy at (bi, jj - 1)
AfterCopy(jj) ==
    IF jj < Len(batches[bi].files_to_rename)
    THEN /\ pc' = "copy_file"
         /\ j' = jj
         /\ bi' = bi
    ELSE /\ pc' = IF bi < Len(batches) THEN "copy_guide" ELSE "finish"
         /\ j' = 0
         /\ bi' = IF bi < Len(batches) THEN bi + 1 ELSE bi

\* lines 178-186: the head of the batch loop and the copy of the guide photo
CopyGuide ==
    /\ pc = "copy_guide"
    /\ LET batch == batches[bi]
           src == <<single_folder_path, batch.guide_file>>
           dst == <<RenamedDirPath, batch.guide_file>>
       IN /\ files' = Copy2(src, dst)
          /\ attempts' = Append(attempts, Attempt(src, dst))
          /\ log' = log \o << <<"batch", bi, batch.guide_file, batch.batch_id>>,
                              IF CopyOk(src, dst)
                              THEN <<"copied guide", batch.guide_file>>
                              ELSE <<"error: guide copy failed", batch.guide_file>> >>
    /\ AfterCopy(0)
    /\ UNCHANGED <<gui, mode, angle_num, image_folder, dirs, unreadable, scandirRev, run,
                   all_files, batches, total_renamed_count, walk, root, image_files, i,
                   files0, files1>>

\* lines 189-206: one iteration of the inner loop
CopyFile ==
    /\ pc = "copy_file"
    /\ UNCHANGED <<gui, mode, angle_num, image_folder, dirs, unreadable, scandirRev, run,
                   all_files, batches, walk, root, image_files, i, files0, files1>>
    /\ IF NamingRaises(j)
       THEN /\ pc' = "crashed"
            /\ UNCHANGED <<files, attempts, log, bi, j, total_renamed_count>>
       ELSE LET batch == batches[bi]
                filename_to_rename == batch.files_to_rename[j + 1]
                new_filename == NewFilename(batch.batch_id, j, filename_to_rename)
                src_path == <<single_folder_path, filename_to_rename>>
                dst_path == <<RenamedDirPath, new_filename>>
            IN /\ files' = Copy2(src_path, dst_path)
               /\ attempts' = Append(attempts, Attempt(src_path, dst_path))
               /\ total_renamed_count' = RenamedCountAfter(src_path, dst_path)
               /\ log' = Append(log, IF CopyOk(src_path, dst_path)
                                     THEN <<"copied", filename_to_rename, new_filename>>
                                     ELSE <<"error: copy failed", src_path, dst_path>>)
               /\ AfterCopy(j + 1)

\* lines 208-219: the check for files left over, and the final line
SingleFinish ==
    /\ pc = "finish"
    /\ LET gpi == GuidePhotosInfo(all_files)
           last_guide_photo_index == gpi[Len(gpi)].index
           last_processed_index ==
               last_guide_photo_index + Len(batches[Len(batches)].files_to_rename)
           remaining_files == SubSeq(all_files, last_processed_index + 2, Len(all_files))
       IN log' = log
            \o (IF last_processed_index < Len(all_files) - 1 /\ remaining_files # <<>>
                THEN << <<"warning: files left unprocessed", Len(remaining_files)>>,
                        <<"unprocessed", remaining_files>> >>
                ELSE <<>>)
            \o << <<"mode 2 done", total_renamed_count>> >>
    /\ pc' = "done"
    /\ UNCHANGED <<gui, mode, angle_num, image_folder, dirs, files, unreadable, scandirRev, run,
                   all_files, batches, bi, j, total_renamed_count, walk, root,
                   image_files, i, attempts, files0, files1>>

\* the tool is started a second time with the same arguments
Rerun ==
    /\ pc \in {"done", "returned", "crashed"}
    /\ run = 1
    /\ run' = 2
    /\ pc' = "start"
    /\ files1' = files
    /\ all_files' = <<>>
    /\ batches' = <<>>
    /\ bi' = 0
    /\ j' = 0
    /\ total_renamed_count' = 0
    /\ walk' = <<>>
    /\ root' = <<>>
    /\ image_files' = <<>>
    /\ i' = 0
    /\ attempts' = <<>>
    /\ log' = <<>>
    /\ UNCHANGED <<gui, mode, angle_num, image_folder, dirs, files, unreadable, scandirRev, files0>>

NextSingle == SingleBegin \/ CopyGuide \/ CopyFile \/ SingleFinish

SpecSingle == InitSingle /\ [][NextSingle]_vars

\* single-folder runs over the short and the long file lists
SpecNaming == (InitSingle \/ InitLarge) /\ [][NextSingle]_vars

----------------------------------------------------------------------------
(* Subfolder mode *)

\* os.path.basename(root)
Basename(d) == d[Len(d)]

\* IsSampleNumber without the isdigit() test
IsSampleNumberAnyChars(name) == Len(name) = 4

\* not sample_number.isdigit() or len(sample_number) != 4 is false
IsSampleNumber(name) == IsDigit(name) /\ Len(name) = 4

\* sorted([f for f in files if supported]) for the directory d
ImageFiles(d) == Sorted({f \in ListDir(d) : IsSupported(f)})

\* f"{region_code}-{date_code}-{sample_number}-{angle_suffix}{file_extension}"
SubNewFilename(sample_number, idx, original_filename) ==
    region_code \o <<"-">> \o date_code \o <<"-">> \o sample_number
        \o <<"-", angle_suffixes[idx + 1]>> \o FileExtension(original_filename)

\* SubLoopEnds with the limit off by one
SubLoopEndsEarly(idx, imgs) == idx >= Len(imgs) \/ idx >= Len(angle_suffixes) - 1

\* the loop of line 76 stops taking files at index idx
SubLoopEnds(idx, imgs) == idx >= Len(imgs) \/ idx >= Len(angle_suffixes)

\* the directories os.walk yields after d, d's sub-directories first
WalkAfter(d, rest) == SubDirs(d) \o rest

\* lines 56-57, and os.walk starting at base_work_dir
SubBegin ==
    /\ pc = "start"
    /\ mode = "subfolder"
    /\ dirs' = create_renamed_directory
    /\ log' = Append(log, <<"renamed directory", RenamedDirPath>>)
    /\ walk' = <<BasePath>>
    /\ pc' = "walk"
    /\ UNCHANGED <<gui, mode, angle_num, image_folder, files, unreadable, scandirRev, run,
                   all_files, batches, bi, j, total_renamed_count, root, image_files, i,
                   attempts, files0, files1>>

\* lines 59-75: os.walk yields the next directory, up to the start of the file loop
WalkNext ==
    /\ pc = "walk"
    /\ walk # <<>>
    /\ \E d \in {Head(walk)} : \E imgs \in {ImageFiles(d)} :
          /\ root' = d
          /\ walk' = WalkAfter(d, Tail(walk))
          /\ i' = 0
          /\ IF d = RenamedDirPath \/ d = BasePath
             THEN /\ UNCHANGED <<log, image_files>>
                  /\ pc' = "walk"
             ELSE IF ~IsSampleNumber(Basename(d))
             THEN /\ log' = Append(log, <<"skip: not a sample number", d, Basename(d)>>)
                  /\ pc' = "walk"
                  /\ UNCHANGED image_files
             ELSE IF imgs = <<>>
             THEN /\ log' = Append(log, <<"warning: no supported files", d>>)
                  /\ image_files' = imgs
                  /\ pc' = "walk"
             ELSE /\ log' = Append(log, <<"processing", d>>)
                  /\ image_files' = imgs
                  /\ pc' = "copy_sub"
    /\ UNCHANGED <<gui, mode, angle_num, image_folder, dirs, files, unreadable, scandirRev, run,
                   all_files, batches, bi, j, total_renamed_count, attempts, files0, files1>>

\* lines 76-91: one iteration of the file loop, and the test that ends the loop
SubCopy ==
    /\ pc = "copy_sub"
    /\ LET original_filename == image_files[i + 1]
           new_filename == SubNewFilename(Basename(root), i, original_filename)
           original_filepath == <<root, original_filename>>
           new_filepath == <<RenamedDirPath, new_filename>>
           line == IF CopyOk(original_filepath, new_filepath)
                   THEN <<"copied", original_filename, new_filename>>
                   ELSE <<"error: copy failed", original_filepath, new_filepath>>
       IN /\ files' = Copy2(original_filepath, new_filepath)
          /\ attempts' = Append(attempts, Attempt(original_filepath, new_filepath))
          /\ i' = i + 1
          /\ pc' = IF SubLoopEnds(i + 1, image_files) THEN "walk" ELSE "copy_sub"
          /\ log' = IF i + 1 < Len(image_files) /\ SubLoopEnds(i + 1, image_files)
                    THEN log \o <<line, <<"note: more images than suffixes", root>> >>
                    ELSE Append(log, line)
    /\ UNCHANGED <<gui, mode, angle_num, image_folder, dirs, unreadable, scandirRev, run,
                   all_files, batches, bi, j, total_renamed_count, walk, root, image_files,
                   files0, files1>>

\* line 93: os.walk is exhausted
SubFinish ==
    /\ pc = "walk"
    /\ walk = <<>>
    /\ log' = Append(log, <<"mode 1 done">>)
    /\ pc' = "done"
    /\ UNCHANGED <<gui, mode, angle_num, image_folder, dirs, files, unreadable, scandirRev, run,
                   all_files, batches, bi, j, total_renamed_count, walk, root, image_files,
                   i, attempts, files0, files1>>

NextSub == SubBegin \/ WalkNext \/ SubCopy \/ SubFinish

SpecSub == InitSub /\ [][NextSub]_vars

Next ==
    \/ SingleBegin \/ CopyGuide \/ CopyFile \/ SingleFinish
    \/ SubBegin \/ WalkNext \/ SubCopy \/ SubFinish

\* one run of either mode
Spec == Init /\ [][Next]_vars

NextTwice == Next \/ Rerun

\* a run of either mode followed by a second run with the same arguments
SpecTwice == Init /\ [][NextTwice]_vars

----------------------------------------------------------------------------
(* rename_images_gui.py: the same two functions, writing to a logger.  The *)
(* call is made with the arguments of the command-line run on a directory  *)
(* with the same contents; its state is the record gui.                    *)

GUI_RENAMED_FOLDER_NAME == <<"r", "e", "n", "a", "m", "e", "d">>

GUI_SUPPORTED_IMAGE_EXTENSIONS ==
    { <<".", "j", "p", "g">>, <<".", "j", "p", "e", "g">>, <<".", "p", "n", "g">>,
      <<".", "g", "i", "f">>, <<".", "b", "m", "p">>, <<".", "t", "i", "f", "f">> }

\* angle_suffixes of the GUI's subfolder mode
gui_angle_suffixes == <<"A", "B", "C", "D">>

\* os.path.join(base_dir, RENAMED_FOLDER_NAME)
GuiRenamedDirPath == <<GUI_RENAMED_FOLDER_NAME>>

\* f.lower().endswith(SUPPORTED_IMAGE_EXTENSIONS)
GuiIsSupported(f) == \E ext \in GUI_SUPPORTED_IMAGE_EXTENSIONS : EndsWith(Lower(f), ext)

\* guide_photo_pattern.search(filename)
GuiGuideExt(f) ==
    {ext \in GUI_SUPPORTED_IMAGE_EXTENSIONS :
        /\ EndsWith(Lower(f), ext)
        /\ Len(f) >= Len(ext) + 3
        /\ f[Len(f) - Len(ext) - 2] = "-"
        /\ IsAlnum(f[Len(f) - Len(ext) - 1])
        /\ IsAlnum(f[Len(f) - Len(ext)])}

\* match.group(1)
GuiGuideBatchId(f) ==
    LET ext == CHOOSE e \in GuiGuideExt(f) : TRUE
    IN SubSeq(f, Len(f) - Len(ext) - 1, Len(f) - Len(ext))

\* os.listdir(d), files only
GuiListDir(d) == {p[2] : p \in {q \in DOMAIN gui.files : q[1] = d}}

\* the sub-directories os.walk finds in d, in scandir order
GuiSubDirs(d) ==
    LET kids == {c \in gui.dirs : Len(c) = Len(d) + 1 /\ SubSeq(c, 1, Len(d)) = d}
    IN IF scandirRev THEN Reverse(SortedPaths(kids)) ELSE SortedPaths(kids)

\* shutil.copy2(src, dst) returns normally
GuiCopyOk(src, dst) == src \in DOMAIN gui.files /\ src \notin unreadable /\ src # dst

\* the file system after shutil.copy2(src, dst)
GuiCopy2(src, dst) ==
    IF GuiCopyOk(src, dst)
    THEN [p \in DOMAIN gui.files \cup {dst} |-> IF p = dst THEN gui.files[src] ELSE gui.files[p]]
    ELSE gui.files

\* os.makedirs(renamed_dir_path, exist_ok=True)
gui_create_renamed_directory == gui.dirs \cup {GuiRenamedDirPath}

\* sorted([f for f in os.listdir(single_folder_path) if supported])
GuiAllFiles == Sorted({f \in GuiListDir(single_folder_path) : GuiIsSupported(f)})

\* guide_photos_info
GuiGuidePhotosInfo(af) ==
    LET G == {k \in 1..Len(af) : GuiGuideExt(af[k]) # {}}
    IN [n \in 1..Cardinality(G) |->
          LET k == CHOOSE k \in G : Cardinality({m \in G : m < k}) = n - 1
          IN [filename |-> af[k], index |-> k - 1, batch_id |-> GuiGuideBatchId(af[k])]]

\* GuiBatches with the next guide photo counted into the batch
GuiBatchesOneMore(af, gpi) ==
    [n \in 1..Len(gpi) |->
        LET start_index == gpi[n].index
            end_index == IF n + 1 <= Len(gpi) THEN gpi[n + 1].index + 1 ELSE Len(af)
        IN [guide_file |-> gpi[n].filename,
            batch_id |-> gpi[n].batch_id,
            files_to_rename |-> SubSeq(af, start_index + 2, end_index)]]

\* batches: batch_files = all_files[start_index:end_index], then batch_files[1:]
GuiBatches(af, gpi) ==
    [n \in 1..Len(gpi) |->
        LET start_index == gpi[n].index
            end_index == IF n + 1 <= Len(gpi) THEN gpi[n + 1].index ELSE Len(af)
        IN [guide_file |-> gpi[n].filename,
            batch_id |-> gpi[n].batch_id,
            files_to_rename |-> SubSeq(af, start_index + 2, end_index)]]

\* the outcome of the checks of lines 114-129 for batches b
GuiValidate(b) ==
    IF Len(b) > 1 /\ \E n \in 1..Len(b) :
                        Len(b[n].files_to_rename) # Len(b[1].files_to_rename)
    THEN "inconsistent"
    ELSE LET num_files_per_batch == Len(b[1].files_to_rename)
         IN IF num_files_per_batch = 0 THEN "empty"
            ELSE IF angle_num = 0 THEN "ZeroDivisionError"
            ELSE IF PyMod(num_files_per_batch, angle_num) # 0 THEN "not_multiple"
            ELSE "ok"

\* group_labels
GuiGroupLabels == [k \in 1..(IF angle_num > 0 THEN angle_num ELSE 0) |-> ChrFromA(k - 1)]

\* lines 147-148 raise instead of yielding a name
GuiNamingRaises(jj) ==
    \/ angle_num = 0
    \/ PyMod(jj, angle_num) >= Len(GuiGroupLabels)
    \/ PyMod(jj, angle_num) < 0 - Len(GuiGroupLabels)

\* f"{region_code}-{date_code}-{batch_id}{group_id:02d}-{angle_suffix}{file_extension}"
GuiNewFilename(batch_id, jj, filename) ==
    region_code \o <<"-">> \o date_code \o <<"-">> \o batch_id
        \o Format02d(PyFloorDiv(jj, angle_num) + 1)
        \o <<"-", GuiGroupLabels[PyMod(jj, angle_num) + 1]>> \o Lower(SplitExt(filename))

\* the command-line run is over
CliReturned == pc \in {"done", "returned", "crashed"}

\* lines 83-132: everything before the copy loop
GuiSingleBegin ==
    /\ CliReturned
    /\ gui.pc = "start"
    /\ mode = "single_folder"
    /\ UNCHANGED cliVars
    /\ IF single_folder_path \notin gui.dirs
       THEN gui' = [gui EXCEPT
                       !.log = @ \o << <<"error: path does not exist", single_folder_path>> >>,
                       !.pc = "returned"]
       ELSE \E af \in {GuiAllFiles} : \E gpi \in {GuiGuidePhotosInfo(af)} :
            \E b \in {GuiBatches(af, gpi)} : \E v \in {IF gpi = <<>> THEN "" ELSE GuiValidate(b)} :
            LET mk == << <<"renamed directory", GuiRenamedDirPath>> >>
                g1 == [gui EXCEPT !.dirs = gui_create_renamed_directory,
                                  !.all_files = af, !.bi = 1, !.j = 0,
                                  !.total_renamed_count = 0]
            IN IF af = <<>>
               THEN gui' = [g1 EXCEPT !.log = @ \o mk \o << <<"warning: no supported files">> >>,
                                      !.pc = "returned"]
               ELSE IF gpi = <<>>
               THEN gui' = [g1 EXCEPT !.log = @ \o mk \o << <<"error: no guide photo">> >>,
                                      !.pc = "returned"]
               ELSE CASE v = "inconsistent" ->
                           gui' = [g1 EXCEPT
                                     !.batches = b,
                                     !.log = @ \o mk \o << <<"error: inconsistent batches">> >>
                                               \o [n \in 1..Len(b) |->
                                                    <<"batch count", b[n].guide_file,
                                                      Len(b[n].files_to_rename)>>],
                                     !.pc = "returned"]
                      [] v = "ZeroDivisionError" ->
                           gui' = [g1 EXCEPT !.batches = b, !.log = @ \o mk, !.pc = "crashed"]
                      [] v = "not_multiple" ->
                           gui' = [g1 EXCEPT
                                     !.batches = b,
                                     !.log = @ \o mk
                                               \o << <<"error: not a multiple",
                                                       Len(b[1].files_to_rename), angle_num>>,
                                                     <<"check the files or angle_num">> >>,
                                     !.pc = "returned"]
                      [] v = "empty" ->
                           gui' = [g1 EXCEPT
                                     !.batches = b,
                                     !.log = @ \o mk
                                               \o << <<"warning: nothing between the guides">>,
                                                     <<"processing", single_folder_path>>,
                                                     <<"detected", Len(b), 0, angle_num>> >>,
                                     !.pc = "copy_guide"]
                      [] v = "ok" ->
                           gui' = [g1 EXCEPT
                                     !.batches = b,
                                     !.log = @ \o mk
                                               \o << <<"processing", single_folder_path>>,
                                                     <<"detected", Len(b),
                                                       Len(b[1].files_to_rename), angle_num>> >>,
                                     !.pc = "copy_guide"]

\* where the loops of lines 136 and 146 go after the copy at (bi, jj - 1)
GuiAfterCopy(g, jj) ==
    IF jj < Len(gui.batches[gui.bi].files_to_rename)
    THEN [g EXCEPT !.pc = "copy_file", !.j = jj]
    ELSE [g EXCEPT !.pc = IF gui.bi < Len(gui.batches) THEN "copy_guide" ELSE "finish",
                   !.j = 0,
                   !.bi = IF gui.bi < Len(gui.batches) THEN gui.bi + 1 ELSE gui.bi]

\* lines 137-144: the head of the batch loop and the copy of the guide photo
GuiCopyGuide ==
    /\ CliReturned
    /\ gui.pc = "copy_guide"
    /\ UNCHANGED cliVars
    /\ LET batch == gui.batches[gui.bi]
           src == <<single_folder_path, batch.guide_file>>
           dst == <<GuiRenamedDirPath, batch.guide_file>>
       IN gui' = GuiAfterCopy(
                    [gui EXCEPT
                       !.files = GuiCopy2(src, dst),
                       !.attempts = Append(@, [src |-> src, dst |-> dst,
                                               ok |-> GuiCopyOk(src, dst)]),
                       !.log = @ \o << <<"batch", gui.bi, batch.guide_file, batch.batch_id>>,
                                       IF GuiCopyOk(src, dst)
                                       THEN <<"copied guide", batch.guide_file>>
                                       ELSE <<"error: guide copy failed", batch.guide_file>> >>],
                    0)

\* lines 146-159: one iteration of the inner loop
GuiCopyFile ==
    /\ CliReturned
    /\ gui.pc = "copy_file"
    /\ UNCHANGED cliVars
    /\ IF GuiNamingRaises(gui.j)
       THEN gui' = [gui EXCEPT !.pc = "crashed"]
       ELSE LET batch == gui.batches[gui.bi]
                filename_to_rename == batch.files_to_rename[gui.j + 1]
                new_filename == GuiNewFilename(batch.batch_id, gui.j, filename_to_rename)
                src_path == <<single_folder_path, filename_to_rename>>
                dst_path == <<GuiRenamedDirPath, new_filename>>
            IN gui' = GuiAfterCopy(
                         [gui EXCEPT
                            !.files = GuiCopy2(src_path, dst_path),
                            !.attempts = Append(@, [src |-> src_path, dst |-> dst_path,
                                                    ok |-> GuiCopyOk(src_path, dst_path)]),
                            !.total_renamed_count =
                                IF GuiCopyOk(src_path, dst_path) THEN @ + 1 ELSE @,
                            !.log = Append(@, IF GuiCopyOk(src_path, dst_path)
                                              THEN <<"copied", filename_to_rename, new_filename>>
                                              ELSE <<"error: copy failed", src_path, dst_path>>)],
                         gui.j + 1)

\* line 161: the final line
GuiSingleFinish ==
    /\ CliReturned
    /\ gui.pc = "finish"
    /\ UNCHANGED cliVars
    /\ gui' = [gui EXCEPT !.log = Append(@, <<"mode 2 done", gui.total_renamed_count>>),
                          !.pc = "done"]

\* sorted([f for f in files if supported]) for the directory d
GuiImageFiles(d) == Sorted({f \in GuiListDir(d) : GuiIsSupported(f)})

\* f"{region_code}-{date_code}-{sample_number}-{angle_suffix}{file_extension}"
GuiSubNewFilename(sample_number, idx, original_filename) ==
    region_code \o <<"-">> \o date_code \o <<"-">> \o sample_number
        \o <<"-", gui_angle_suffixes[idx + 1]>> \o Lower(SplitExt(original_filename))

\* the loop of line 59 stops taking files at index idx
GuiSubLoopEnds(idx, imgs) == idx >= Len(imgs) \/ idx >= Len(gui_angle_suffixes)

\* line 40, and os.walk starting at base_work_dir
GuiSubBegin ==
    /\ CliReturned
    /\ gui.pc = "start"
    /\ mode = "subfolder"
    /\ UNCHANGED cliVars
    /\ gui' = [gui EXCEPT !.dirs = gui_create_renamed_directory,
                          !.log = Append(@, <<"renamed directory", GuiRenamedDirPath>>),
                          !.walk = <<BasePath>>,
                          !.pc = "walk"]

\* lines 42-58: os.walk yields the next directory, up to the start of the file loop
GuiWalkNext ==
    /\ CliReturned
    /\ gui.pc = "walk"
    /\ gui.walk # <<>>
    /\ UNCHANGED cliVars
    /\ \E d \in {Head(gui.walk)} : \E imgs \in {GuiImageFiles(d)} :
       \E g1 \in {[gui EXCEPT !.root = d, !.walk = GuiSubDirs(d) \o Tail(gui.walk), !.i = 0]} :
          IF d = GuiRenamedDirPath \/ d = BasePath
          THEN gui' = g1
          ELSE IF ~(IsDigit(Basename(d)) /\ Len(Basename(d)) = 4)
          THEN gui' = [g1 EXCEPT
                          !.log = Append(@, <<"skip: not a sample number", d, Basename(d)>>)]
          ELSE IF imgs = <<>>
          THEN gui' = [g1 EXCEPT !.log = Append(@, <<"warning: no supported files", d>>),
                                 !.image_files = imgs]
          ELSE gui' = [g1 EXCEPT !.log = Append(@, <<"processing", d>>),
                                 !.image_files = imgs,
                                 !.pc = "copy_sub"]

\* lines 59-74: one iteration of the file loop, and the test that ends the loop
GuiSubCopy ==
    /\ CliReturned
    /\ gui.pc = "copy_sub"
    /\ UNCHANGED cliVars
    /\ LET original_filename == gui.image_files[gui.i + 1]
           new_filename == GuiSubNewFilename(Basename(gui.root), gui.i, original_filename)
           original_filepath == <<gui.root, original_filename>>
           new_filepath == <<GuiRenamedDirPath, new_filename>>
           line == IF GuiCopyOk(original_filepath, new_filepath)
                   THEN <<"copied", original_filename, new_filename>>
                   ELSE <<"error: copy failed", original_filepath, new_filepath>>
           ends == GuiSubLoopEnds(gui.i + 1, gui.image_files)
       IN gui' = [gui EXCEPT
                     !.files = GuiCopy2(original_filepath, new_filepath),
                     !.attempts = Append(@, [src |-> original_filepath, dst |-> new_filepath,
                                             ok |-> GuiCopyOk(original_filepath, new_filepath)]),
                     !.i = @ + 1,
                     !.pc = IF ends THEN "walk" ELSE "copy_sub",
                     !.log = IF gui.i + 1 < Len(gui.image_files) /\ ends
                             THEN @ \o <<line, <<"note: more images than suffixes", gui.root>> >>
                             ELSE Append(@, line)]

\* line 76: os.walk is exhausted
GuiSubFinish ==
    /\ CliReturned
    /\ gui.pc = "walk"
    /\ gui.walk = <<>>
    /\ UNCHANGED cliVars
    /\ gui' = [gui EXCEPT !.log = Append(@, <<"mode 1 done">>), !.pc = "done"]

NextBoth ==
    \/ SingleBegin \/ CopyGuide \/ CopyFile \/ SingleFinish
    \/ SubBegin \/ WalkNext \/ SubCopy \/ SubFinish
    \/ GuiSingleBegin \/ GuiCopyGuide \/ GuiCopyFile \/ GuiSingleFinish
    \/ GuiSubBegin \/ GuiWalkNext \/ GuiSubCopy \/ GuiSubFinish

\* the command-line call, then the same call through the GUI module on a
\* directory with the same contents
SpecBoth == Init /\ [][NextBoth]_vars

----------------------------------------------------------------------------
(* The vocabulary of the properties: the inputs of a run, described without *)
(* the program's lists and indices                                          *)

\* the file system the current run started from
RunStartFiles == IF run = 1 THEN files0 ELSE files1

RunEnded == pc \in {"done", "returned", "crashed"}

\* the supported images of the image folder when the run started
Supported0 ==
    {f \in {p[2] : p \in {q \in DOMAIN RunStartFiles : q[1] = <<image_folder>>}} :
        IsSupported(f)}

GuidesOf(S) == {f \in S : IsGuide(f)}

Guides0 == GuidesOf(Supported0)

\* the non-guide files of S between guide g and the next guide of G in sorted order
Followers(S, G, g) ==
    {f \in S \ G :
        /\ StrLess(g, f)
        /\ ~\E h \in G : StrLess(g, h) /\ StrLess(h, f)}

FollowersOf(g) == Followers(Supported0, Guides0, g)

CountsOf(S, G) == {Cardinality(Followers(S, G, g)) : g \in G}

BatchCounts == CountsOf(Supported0, Guides0)

Divisible(c, a) == \E q \in (0 - c)..c : q * a = c

FailsValidationOf(S, G, N) ==
    \/ G = {}
    \/ Cardinality(N) > 1
    \/ \E c \in N : c # 0 /\ ~Divisible(c, angle_num)

FailsValidation ==
    \E S \in {Supported0} : \E G \in {GuidesOf(S)} : \E N \in {CountsOf(S, G)} :
        FailsValidationOf(S, G, N)

\* the 0-indexed position of f in the set F of files that follow a guide
PositionIn(F, f) == Cardinality({x \in F : StrLess(x, f)})

\* the two characters before the extension of guide g
MatchedId(g) ==
    LET d == CHOOSE k \in DOMAIN g : g[k] = "." /\ \A m \in (k + 1)..Len(g) : g[m] # "."
    IN <<g[d - 2], g[d - 1]>>

\* {REGION}-{DATE}-{BATCHID}{G}-{ANGLE}{ext} for position jj after guide g
PositionName(g, jj, f) ==
    region_code \o <<"-">> \o date_code \o <<"-">> \o MatchedId(g)
        \o Format02d(PyFloorDiv(jj, angle_num) + 1)
        \o <<"-", Uppers[PyMod(jj, angle_num) + 1]>> \o Lower(SplitExt(f))

AllCopiesOk == \A k \in DOMAIN attempts : attempts[k].ok

----------------------------------------------------------------------------
(* C1 *)

\* C1: in single-folder mode, when the sorted file list has no guide photo, or
\* the batches differ in their number of non-guide files, or the common count is
\* non-zero and not divisible by angle_num, the run ends without any copy: no
\* copy is attempted and the file system is as the run found it.
C1_NoCopyWhenValidationFails ==
    (mode = "single_folder" /\ FailsValidation)
        => /\ attempts = <<>>
           /\ files = RunStartFiles
           /\ pc \in {"start", "returned", "crashed"}

\* a run that returned because two batches have different counts
C1_Witness ==
    /\ mode = "single_folder"
    /\ pc = "returned"
    /\ Cardinality(Guides0) >= 2
    /\ Cardinality(BatchCounts) > 1
    /\ log # <<>>

----------------------------------------------------------------------------
(* C2 *)

\* C2: in single-folder mode, in every run that passes validation, the non-guide
\* file at 0-indexed position j of a batch is copied to the name
\* {REGION}-{DATE}-{BATCHID}{G}-{ANGLE}{ext}, BATCHID the two characters matched
\* in the guide's name, G = (j // angle_num) + 1 on two digits, ANGLE the
\* (j % angle_num)-th letter from 'A'.
C2_PositionNaming ==
    (mode = "single_folder" /\ pc \in {"done", "crashed"} /\ ~FailsValidation)
        => \A S \in {Supported0} : \A G \in {GuidesOf(S)} :
           \A g \in G : \A F \in {Followers(S, G, g)} : \A f \in F :
              \E k \in DOMAIN attempts :
                  /\ attempts[k].src = << <<image_folder>>, f >>
                  /\ attempts[k].dst = <<RenamedDirPath, PositionName(g, PositionIn(F, f), f)>>

----------------------------------------------------------------------------
(* C3 *)

\* the files the first run added to the file system
Produced == DOMAIN files \ DOMAIN files0

\* C3: in single-folder mode, after a run that passes validation and in which no
\* copy fails, the number of renamed files in the output directory is the sum
\* over the batches of their non-guide file counts, and each guide photo is in
\* the output under its original name; also when two guides carry the same
\* batch id.
C3_RenamedCountIsSum ==
    (mode = "single_folder" /\ run = 1 /\ pc = "done" /\ AllCopiesOk)
        => \A S \in {Supported0} : \A G \in {GuidesOf(S)} :
           /\ Cardinality({p \in Produced : p[1] = RenamedDirPath /\ ~IsGuide(p[2])})
                = Cardinality(UNION {Followers(S, G, g) : g \in G})
           /\ \A g \in G :
                 /\ <<RenamedDirPath, g>> \in DOMAIN files
                 /\ files[<<RenamedDirPath, g>>] = files0[<< <<image_folder>>, g >>]

----------------------------------------------------------------------------
(* Subfolder mode: the vocabulary of C4-C6 *)

FourDigits(name) == Len(name) = 4 /\ \A k \in 1..4 : name[k] \in DigitSet

\* the directories below the base directory whose name is exactly 4 digits
SampleDirs == {d \in dirs : FourDigits(d[Len(d)])}

\* the supported images directory d held when the run started
ImagesOf(d) ==
    {f \in {p[2] : p \in {q \in DOMAIN RunStartFiles : q[1] = d}} : IsSupported(f)}

\* the copies attempted from directory d, in order
AttemptsFrom(d) == SelectSeq(attempts, LAMBDA a : a.src[1] = d)

\* {REGION}-{DATE}-{SAMPLEID}-{letter}{ext}
SampleName(d, letter, f) ==
    region_code \o <<"-">> \o date_code \o <<"-">> \o d[Len(d)] \o <<"-", letter>>
        \o Lower(SplitExt(f))

Letters4 == <<"A", "B", "C", "D">>

----------------------------------------------------------------------------
(* C4 *)

\* C4: in subfolder mode, for a sample folder holding N supported images, the
\* copies made from it are those of the first min(N, 4) images in sorted order,
\* the i-th to the name with the i-th suffix of A, B, C, D; each copy of a
\* readable image puts that name in the output; images 5..N are never copied.
C4_FirstFourBySortedOrder ==
    (mode = "subfolder" /\ pc = "done")
        => \A d \in SampleDirs : \A F \in {ImagesOf(d)} : \A A \in {AttemptsFrom(d)} :
              /\ Len(A) = (IF Cardinality(F) <= 4 THEN Cardinality(F) ELSE 4)
              /\ \A k \in DOMAIN A :
                    /\ A[k].src[2] \in F
                    /\ PositionIn(F, A[k].src[2]) = k - 1
                    /\ A[k].dst = <<RenamedDirPath, SampleName(d, Letters4[k], A[k].src[2])>>
                    /\ A[k].ok = (A[k].src \notin unreadable)
                    /\ A[k].ok => A[k].dst \in DOMAIN files
                    /\ (A[k].ok /\ \A e \in SampleDirs \ {d} : e[Len(e)] # d[Len(d)])
                          => files[A[k].dst] = files0[A[k].src]

\* a finished run over a folder with more than 4 images and one with 1 to 4
C4_Witness ==
    /\ mode = "subfolder"
    /\ pc = "done"
    /\ \E d \in SampleDirs : Cardinality(ImagesOf(d)) > 4 /\ Len(AttemptsFrom(d)) = 4
    /\ \E d \in SampleDirs : Cardinality(ImagesOf(d)) \in 2..4
                                /\ Len(AttemptsFrom(d)) = Cardinality(ImagesOf(d))

----------------------------------------------------------------------------
(* C5 *)

\* C5: in subfolder mode only immediate child directories of the base directory,
\* other than the output directory, are samples: no file is copied from a
\* directory nested two or more levels down, nor from one inside the output
\* directory.
C5_OnlyImmediateChildren ==
    mode = "subfolder"
        => \A k \in DOMAIN attempts :
              /\ Len(attempts[k].src[1]) = 1
              /\ attempts[k].src[1][1] # RENAMED_FOLDER_NAME

----------------------------------------------------------------------------
(* C6 *)

\* C6: in subfolder mode no file is copied from a directory whose name is not
\* exactly 4 digits, and such a directory (or a 4-digit one without supported
\* images) does not stop the run: at the end every directory with a 4-digit
\* name and a supported image has been processed.
C6_OnlyFourDigitFolders ==
    mode = "subfolder"
        => /\ \A k \in DOMAIN attempts :
                 FourDigits(attempts[k].src[1][Len(attempts[k].src[1])])
           /\ pc = "done"
                 => \A d \in SampleDirs :
                       ImagesOf(d) # {} => \E k \in DOMAIN attempts : attempts[k].src[1] = d

\* a finished run that skipped a badly named child of the base directory and
\* then processed a sample folder beside it
C6_Witness ==
    /\ mode = "subfolder"
    /\ pc = "done"
    /\ \E k1, k2 \in DOMAIN log :
          /\ k1 < k2
          /\ log[k1][1] = "skip: not a sample number"
          /\ Len(log[k1][2]) = 1
          /\ log[k2][1] = "processing"
          /\ Len(log[k2][2]) = 1

----------------------------------------------------------------------------
(* C7 *)

NoUpper(t) == \A k \in DOMAIN t : t[k] \notin UpperSet

\* the copy attempts[k] is the copy of a guide photo under its own name
IsGuideCopy(a) == mode = "single_folder" /\ IsGuide(a.src[2])

\* C7 as stated: every file written to the output directory, in either mode and
\* including the guide photos of single-folder mode, has a lower-cased
\* extension.
C7_EveryOutputExtensionLower ==
    \A k \in DOMAIN attempts :
        attempts[k].ok => NoUpper(SplitExt(attempts[k].dst[2]))

\* C7 as amended: every renamed file written to the output directory, in either
\* mode, carries the lower-cased extension of its input file; a guide photo is
\* copied under its original name, extension unchanged; every input copied has
\* a supported extension when compared case-insensitively.
C7_RenamedExtensionLower ==
    \A k \in DOMAIN attempts :
        /\ \E ext \in SUPPORTED_IMAGE_EXTENSIONS : EndsWith(Lower(attempts[k].src[2]), ext)
        /\ IF IsGuideCopy(attempts[k])
           THEN attempts[k].dst[2] = attempts[k].src[2]
           ELSE /\ NoUpper(SplitExt(attempts[k].dst[2]))
                /\ SplitExt(attempts[k].dst[2]) = Lower(SplitExt(attempts[k].src[2]))
                /\ SplitExt(attempts[k].dst[2]) \in SUPPORTED_IMAGE_EXTENSIONS

\* a run that has written a guide photo with an upper-case extension and a
\* renamed file whose input had an upper-case extension
C7_Witness ==
    /\ \E k \in DOMAIN attempts :
          /\ attempts[k].ok
          /\ IsGuideCopy(attempts[k])
          /\ ~NoUpper(SplitExt(attempts[k].src[2]))
    /\ \E k \in DOMAIN attempts :
          /\ attempts[k].ok
          /\ ~IsGuideCopy(attempts[k])
          /\ ~NoUpper(SplitExt(attempts[k].src[2]))

----------------------------------------------------------------------------
(* C8 *)

\* C8: no run of either mode modifies, moves or deletes a source image: every
\* file present before the first run exists with the content it had, whatever
\* the image subfolder, the output directory 'renamed' included.
C8_SourcesUntouched ==
    \A p \in DOMAIN files0 : p \in DOMAIN files /\ files[p] = files0[p]

----------------------------------------------------------------------------
(* C9 *)

\* the files of the source folders in file system F
SourcePaths(F) ==
    {p \in DOMAIN F :
        IF mode = "single_folder" THEN p[1] = <<image_folder>> ELSE p[1] # RenamedDirPath}

\* the second run found the source folders as the first run found them
SourceUnchanged ==
    /\ SourcePaths(files1) = SourcePaths(files0)
    /\ \A p \in SourcePaths(files0) : files1[p] = files0[p]

\* C9: a second run with the same arguments on the same unchanged source
\* directory deletes no file the first run produced, and at its end the file
\* system holds the same names with the same contents as after the first run.
C9_SecondRunIdempotent ==
    run = 2
        => /\ DOMAIN files1 \subseteq DOMAIN files
           /\ (RunEnded /\ SourceUnchanged) => files = files1

\* a second run that has finished after copying again what the first run copied
C9_Witness ==
    /\ run = 2
    /\ pc = "done"
    /\ SourceUnchanged
    /\ files1 # files0
    /\ \E k \in DOMAIN attempts : attempts[k].ok /\ attempts[k].dst \in DOMAIN files1

----------------------------------------------------------------------------
(* C10 *)

\* the source files a finished run must have tried to copy, from the inputs alone
ExpectedSources ==
    IF mode = "single_folder"
    THEN {<< <<image_folder>>, f >> :
             f \in {x \in Supported0 : \E g \in Guides0 : g = x \/ StrLess(g, x)}}
    ELSE UNION {{<<d, f>> : f \in {x \in ImagesOf(d) : PositionIn(ImagesOf(d), x) < 4}} :
                   d \in SampleDirs}

\* C10: a failed copy never stops a run.  A run that reaches its end has tried
\* exactly the copies its inputs call for, once each, whichever of them failed;
\* in single-folder mode they are tried in sorted order; a run is only ever cut
\* short by the arithmetic on angle_num; and the count of single-folder mode is
\* the number of non-guide files whose copy succeeded.
C10_FailedCopyDoesNotStopRun ==
    /\ pc = "done"
          => /\ {attempts[k].src : k \in DOMAIN attempts} = ExpectedSources
             /\ Len(attempts) = Cardinality(ExpectedSources)
    /\ mode = "single_folder"
          => /\ \A k \in 1..(Len(attempts) - 1) :
                   StrLess(attempts[k].src[2], attempts[k + 1].src[2])
             /\ total_renamed_count
                   = Cardinality({k \in DOMAIN attempts :
                                     attempts[k].ok /\ ~IsGuide(attempts[k].src[2])})
    /\ pc = "crashed" => mode = "single_folder" /\ angle_num <= 0
    /\ \A k \in DOMAIN attempts : attempts[k].ok = (attempts[k].src \notin unreadable
                                                    /\ attempts[k].src # attempts[k].dst)

\* a finished single-folder run in which the copy of a non-guide file failed and
\* a later file was copied and counted
C10_Witness ==
    /\ mode = "single_folder"
    /\ pc = "done"
    /\ total_renamed_count >= 1
    /\ \E k \in 1..(Len(attempts) - 1) :
          /\ ~attempts[k].ok
          /\ ~IsGuide(attempts[k].src[2])
          /\ attempts[k + 1].ok
          /\ ~IsGuide(attempts[k + 1].src[2])

----------------------------------------------------------------------------
(* C11 *)

\* {REGION}-{DATE}-
NamePrefix == region_code \o <<"-">> \o date_code \o <<"-">>

\* the number a string of decimal digits denotes
RECURSIVE DigitsValue(_)
DigitsValue(d) ==
    IF d = <<>> THEN 0
    ELSE 10 * DigitsValue(SubSeq(d, 1, Len(d) - 1)) + (IndexOf(d[Len(d)], Digits) - 1)

\* the copies of guide photos among the copies attempted
GuideAttempts == {k \in DOMAIN attempts : IsGuide(attempts[k].src[2])}

\* the copy of the guide of the batch of the non-guide copy attempts[k], GA
\* being the copies of guide photos
GuideAttemptOf(GA, k) == CHOOSE g \in GA : g < k /\ \A m \in GA : m < k => m <= g

\* the 0-indexed position of the non-guide copy attempts[k] within its batch
BatchPosition(GA, k) == k - GuideAttemptOf(GA, k) - 1

\* the guide photo of the batch of the non-guide copy attempts[k]
BatchGuide(GA, k) == attempts[GuideAttemptOf(GA, k)].src[2]

\* the parts of an output name: what lies between the batch id and the "-"
\* before the last character of the stem, that character, and the extension
GroupDigits(name) == SubSeq(name, 9, Len(name) - Len(SplitExt(name)) - 2)

AngleChar(name) == name[Len(name) - Len(SplitExt(name))]

RenamedAttempts == DOMAIN attempts \ GuideAttempts

\* the characters that follow 'Z' in ASCII
AfterZ == <<"[", "\\", "]", "^", "_">>

\* C11: every renamed (non-guide) file name produced by single-folder
\* mode is {REGION}-{DATE}-{2-char batch id}{2-digit group id}-{L}{ext}, the
\* group id exactly 2 digits and L a letter in 'A' .. 'A'+angle_num-1, for every
\* per-batch file count and every positive angle_num that passes validation.
C11_TwoDigitGroupAndLetter ==
    (mode = "single_folder" /\ angle_num > 0)
        => \A k \in RenamedAttempts : \A name \in {attempts[k].dst[2]} :
              /\ SubSeq(name, 1, 6) = NamePrefix
              /\ IsAlnum(name[7]) /\ IsAlnum(name[8])
              /\ name[9] \in DigitSet /\ name[10] \in DigitSet
              /\ name[11] = "-"
              /\ name[12] \in {Uppers[m] : m \in 1..(IF angle_num < 26 THEN angle_num ELSE 26)}
              /\ SubSeq(name, 13, Len(name)) \in SUPPORTED_IMAGE_EXTENSIONS

\* what the code produces: every renamed file name of single-folder mode with
\* a positive angle_num is {REGION}-{DATE}-{batch id}{group id}-{L}{ext}: the
\* batch id is the two characters matched in the batch's guide; the group id is
\* (j // angle_num) + 1 in decimal, zero-padded to at least two digits, so two
\* digits exactly when j < 99 * angle_num and more beyond; L is the character
\* with code ord('A') + (j % angle_num), a letter of 'A' .. 'A'+angle_num-1 when
\* angle_num <= 26 and one of the characters after 'Z' for the 27th label on.
NamesAsProduced ==
    (mode = "single_folder" /\ angle_num > 0)
        => \A GA \in {GuideAttempts} : \A k \in DOMAIN attempts \ GA :
           \E name \in {attempts[k].dst[2]} : \E jj \in {BatchPosition(GA, k)} :
           \E D \in {GroupDigits(name)} : \E L \in {AngleChar(name)} :
              /\ SubSeq(name, 1, 6) = NamePrefix
              /\ SubSeq(name, 7, 8) = MatchedId(BatchGuide(GA, k))
              /\ Len(D) >= 2
              /\ \A m \in DOMAIN D : D[m] \in DigitSet
              /\ Len(D) > 2 => D[1] # "0"
              /\ DigitsValue(D) = (jj \div angle_num) + 1
              /\ Len(D) = 2 <=> jj < 99 * angle_num
              /\ name[Len(name) - Len(SplitExt(name)) - 1] = "-"
              /\ jj % angle_num < 26 => L = Uppers[(jj % angle_num) + 1]
              /\ jj % angle_num \in 26..30 => L = AfterZ[(jj % angle_num) - 25]
              /\ angle_num <= 26 => L \in {Uppers[m] : m \in 1..angle_num}
              /\ SplitExt(name) = Lower(SplitExt(attempts[k].src[2]))
              /\ SplitExt(name) \in SUPPORTED_IMAGE_EXTENSIONS

----------------------------------------------------------------------------
(* C12 *)

\* the copy operations of a record of copies: source path and destination path
CopyOps(A) == [k \in DOMAIN A |-> <<A[k].src, A[k].dst>>]

IsPrefix(s, t) == Len(s) <= Len(t) /\ SubSeq(t, 1, Len(s)) = s

GuiReturned == gui.pc \in {"done", "returned", "crashed"}

\* C12: the renaming functions of the GUI module and those of the CLI module
\* are equivalent: called with the same arguments on the same directory
\* contents, each pair performs the same sequence of copy operations (source
\* path, destination path) and emits the same sequence of log lines; at every
\* moment the GUI call has done a prefix of what the CLI call did, and when it
\* is over it has done all of it, ended the same way and left the same files.
C12_GuiEquivalentToCli ==
    /\ IsPrefix(CopyOps(gui.attempts), CopyOps(attempts))
    /\ IsPrefix(gui.log, log)
    /\ GuiReturned
          => /\ CliReturned
             /\ CopyOps(gui.attempts) = CopyOps(attempts)
             /\ gui.log = log
             /\ gui.pc = pc
             /\ gui.files = files
             /\ gui.dirs = dirs

\* both calls are over, in single-folder mode, after copying and renaming
\* files of two batches
C12_Witness ==
    /\ mode = "single_folder"
    /\ pc = "done"
    /\ gui.pc = "done"
    /\ Len(gui.batches) >= 2
    /\ gui.total_renamed_count >= 2
    /\ Len(gui.log) >= 8

----------------------------------------------------------------------------
(* C13 *)

\* the 0-based index in all_files of the last guide photo
LastGuideIndex ==
    (CHOOSE k \in DOMAIN all_files :
        /\ IsGuide(all_files[k])
        /\ \A m \in (k + 1)..Len(all_files) : ~IsGuide(all_files[m])) - 1

PostPassLines == {"warning: files left unprocessed", "unprocessed"}

\* C13: in single-folder mode the post-pass that warns about files left
\* unprocessed after the last batch is unreachable: for every file list with at
\* least one guide photo, last guide index + number of non-guide files of the
\* last batch = len(all_files) - 1, so last_processed_index < len(all_files) - 1
\* is never true and the warning is never emitted.
C13_PostPassUnreachable ==
    mode = "single_folder"
        => /\ batches # <<>>
                 => LastGuideIndex + Len(batches[Len(batches)].files_to_rename)
                       = Len(all_files) - 1
           /\ \A k \in DOMAIN log : log[k][1] \notin PostPassLines

\* a run that went through the post-pass after a last batch with files in it
C13_Witness ==
    /\ mode = "single_folder"
    /\ pc = "done"
    /\ Len(batches) >= 2
    /\ Len(batches[Len(batches)].files_to_rename) >= 1
    /\ LastGuideIndex >= 2
    /\ log[Len(log)][1] = "mode 2 done"

----------------------------------------------------------------------------
(* C14 *)

\* the files of S that sort before every guide photo of G
BeforeFirstGuide(S, G) == {f \in S : \A g \in G : StrLess(f, g)}

\* the files of batch b: its guide photo and its files to rename
BatchFiles(b) == {b.guide_file} \cup Range(b.files_to_rename)

\* the input files a log line names
LineNames(line) ==
    CASE line[1] \in {"copied", "batch count", "copied guide", "error: guide copy failed"}
            -> {line[2]}
      [] line[1] = "batch" -> {line[3]}
      [] line[1] = "error: copy failed" -> {line[2][2]}
      [] line[1] = "unprocessed" -> Range(line[2])
      [] OTHER -> {}

\* the batch sizes a log line states
LineCounts(line) ==
    CASE line[1] = "batch count" -> {line[3]}
      [] line[1] = "detected" -> {line[3]}
      [] line[1] = "error: not a multiple" -> {line[2]}
      [] OTHER -> {}

\* C14: in single-folder mode the batches cover exactly the files from the
\* first guide photo to the end of the sorted list, each such file in exactly
\* one batch and no file to rename being itself a guide photo; every supported
\* image that sorts before the first guide photo belongs to no batch, is never
\* copied or renamed, is not counted in the batch-size checks, and no log line
\* reports it.
C14_BatchesCoverFromFirstGuide ==
    (mode = "single_folder" /\ pc # "start")
        => \A S \in {Supported0} : \A G \in {GuidesOf(S)} :
           \A Pre \in {BeforeFirstGuide(S, G)} :
              /\ Len(batches) = Cardinality(G)
              /\ UNION {BatchFiles(batches[n]) : n \in DOMAIN batches} = S \ Pre
              /\ \A n, m \in DOMAIN batches :
                    n # m => BatchFiles(batches[n]) \cap BatchFiles(batches[m]) = {}
              /\ \A n \in DOMAIN batches : \A F \in {batches[n].files_to_rename} :
                    /\ batches[n].guide_file \in G
                    /\ Range(F) \cap G = {}
                    /\ Cardinality(Range(F)) = Len(F)
                    /\ Range(F) = Followers(S, G, batches[n].guide_file)
                    /\ \A k \in DOMAIN F : StrLess(batches[n].guide_file, F[k])
              /\ \A k \in DOMAIN attempts : attempts[k].src[2] \notin Pre
              /\ \A k \in DOMAIN log :
                    /\ LineNames(log[k]) \cap Pre = {}
                    /\ G # {} => LineCounts(log[k]) \subseteq CountsOf(S, G)

\* a finished run over a list that starts with a file before the first guide,
\* holds two guides, and had files copied and renamed
C14_Witness ==
    /\ mode = "single_folder"
    /\ pc = "done"
    /\ Len(batches) >= 2
    /\ total_renamed_count >= 2
    /\ ~IsGuide(all_files[1])

====
